---- MODULE Spec2Model ----
(***************************************************************************)
(* RepoPilot backend (src/main.py): the analyze-repo request handler, the  *)
(* RepoAnalysis engine (file-tree builder, per-file analysers, report and  *)
(* tour generation) and the dependency view.                               *)
(*                                                                         *)
(* Text is modelled as a tuple of one-character strings, so that           *)
(* startswith, suffix, lower, split and the lexicographic order of sorted  *)
(* are computed as Python computes them.                                   *)
(***************************************************************************)
EXTENDS Integers, Sequences, FiniteSets, TLC

VARIABLES
    pc,          \* position of the run: handler, engine driver or dependency driver
    tempdir,     \* "absent" | "present": the directory made by tempfile.mkdtemp
    ws,          \* content of the workspace directory on disk
    repo_path,   \* local repo_path of analyze_repository: [set |-> FALSE] until clone returns
    analyzer,    \* the RepoAnalysis instance: structure, dependencies, total_lines, total_files
    repo_map,    \* value returned by generate_repo_map
    repo_tour,   \* value returned by generate_repo_tour
    response,    \* HTTP response of analyze_repository: status and body
    reports,     \* outputs of the engine runs made so far over ws
    tree_out     \* result of a direct build_file_tree(root, max_depth) call

vars == <<pc, tempdir, ws, repo_path, analyzer, repo_map, repo_tour, response,
          reports, tree_out>>

-----------------------------------------------------------------------------
(* Bounds of the model *)

\* nesting of non-ignored directories below the workspace root
MaxDepth == 2
\* files side by side in one directory of the flat workspaces
MaxLeaves == 2
\* largest max_depth argument passed to build_file_tree directly
MaxDepthArg == 1
\* starting points of a directory listing / set iteration the platform may produce
Rotations == 1
\* engine runs made over one workspace
MaxRuns == 2
\* identifiers that can be inserted into the dependency set
NumDeps == 11
\* generate_repo_map calls made on one RepoAnalysis
MaxCalls == 2
\* lines of a Python file given to the analyser on its own
MaxPyLines == 6
\* deepest indentation level of a line of such a file
MaxNest == 3

(* Program constants *)

\* build_file_tree(self, path, max_depth=4, current_depth=0)
DefaultMaxDepth == 4
\* content[:200]
PreviewLen == 200
\* sorted(list(self.dependencies))[:10]
TopDepsLen == 10
\* sorted(list(self.dependencies))[:5]
TourDepsLen == 5
\* HTTPException(status_code=400, ...)
CloneErrorStatus == 400
\* status of a response whose body the handler returns
OkStatus == 200

-----------------------------------------------------------------------------
(* Text *)

\* the characters used, in code-point order
CharOrder ==
    << ".", "/", "B", "J", "S", "_",
       "a", "b", "c", "d", "e", "g", "h", "i", "j", "k", "l", "m", "n", "o",
       "p", "r", "s", "t", "u", "v", "x", "y" >>

CodeOf == [c \in {CharOrder[i] : i \in 1..Len(CharOrder)} |->
              CHOOSE i \in 1..Len(CharOrder) : CharOrder[i] = c]

\* ord(c), up to the order
Code(c) == CodeOf[c]

\* str.lower() on one character
LowerChar(c) ==
    CASE c = "B" -> "b"
      [] c = "J" -> "j"
      [] c = "S" -> "s"
      [] OTHER -> c

Lower(s) == [i \in 1..Len(s) |-> LowerChar(s[i])]

\* s < t for Python str: lexicographic by code point, a proper prefix first
RECURSIVE StrLess(_, _)
StrLess(s, t) ==
    IF t = << >> THEN FALSE
    ELSE IF s = << >> THEN TRUE
    ELSE IF Code(Head(s)) # Code(Head(t)) THEN Code(Head(s)) < Code(Head(t))
    ELSE StrLess(Tail(s), Tail(t))

\* s.startswith(c) for a one-character c
StartsWith(s, c) == Len(s) >= 1 /\ s[1] = c

\* s.rfind(c): 0-based index of the last c, -1 when there is none
RFind(s, c) ==
    IF \E i \in 1..Len(s) : s[i] = c
    THEN (CHOOSE i \in 1..Len(s) : s[i] = c /\ \A j \in (i+1)..Len(s) : s[j] # c) - 1
    ELSE -1

\* PurePath.suffix: name[i:] for i = name.rfind('.') when 0 < i < len(name) - 1
Suffix(name) ==
    LET i == RFind(name, ".")
    IN  IF 0 < i /\ i < Len(name) - 1 THEN SubSeq(name, i + 1, Len(name)) ELSE << >>

\* SplitFirst that does not split: the whole reference is kept
SplitNowhere(s, c) == s

\* s.split(c)[0]: the text before the first c, all of s when there is none
SplitFirst(s, c) ==
    IF \E i \in 1..Len(s) : s[i] = c
    THEN SubSeq(s, 1, (CHOOSE i \in 1..Len(s) : s[i] = c /\ \A j \in 1..(i-1) : s[j] # c) - 1)
    ELSE s

\* list.sort by <: insertion of x into a sorted sequence, after its equals
RECURSIVE InsertSorted(_, _)
InsertSorted(x, sq) ==
    IF sq = << >> THEN << x >>
    ELSE IF StrLess(x, Head(sq)) THEN << x >> \o sq
    ELSE << Head(sq) >> \o InsertSorted(x, Tail(sq))

\* sorted(seq) for a sequence of str
RECURSIVE Sorted(_)
Sorted(sq) == IF sq = << >> THEN << >> ELSE InsertSorted(Head(sq), Sorted(Tail(sq)))

\* seq[:n]
Take(sq, n) == SubSeq(sq, 1, IF Len(sq) < n THEN Len(sq) ELSE n)

Range(sq) == {sq[i] : i \in 1..Len(sq)}

-----------------------------------------------------------------------------
(* Platform order: os.scandir and set iteration yield elements in an order *)
(* the program does not control.  An order is the ascending enumeration,   *)
(* reversed or not, read from one of its starting points.                  *)

Orders == [rev : BOOLEAN, rot : 0..(Rotations - 1)]

Reverse(sq) == [i \in 1..Len(sq) |-> sq[Len(sq) + 1 - i]]

Rotate(sq, k) ==
    IF sq = << >> THEN sq
    ELSE [i \in 1..Len(sq) |-> sq[((i - 1 + k) % Len(sq)) + 1]]

Permute(sq, ord) == Rotate(IF ord.rev THEN Reverse(sq) ELSE sq, ord.rot)

\* the ascending enumeration of a finite set of str
RECURSIVE Ascending(_)
Ascending(S) ==
    IF S = {} THEN << >>
    ELSE LET m == CHOOSE x \in S : \A y \in S \ {x} : StrLess(x, y)
         IN  << m >> \o Ascending(S \ {m})

\* list(a_set): the elements in the platform's order
ListOfSet(S, ord) == Permute(Ascending(S), ord)

-----------------------------------------------------------------------------
(* File names *)

app_py       == << "a", "p", "p", ".", "p", "y" >>
B_JS         == << "B", ".", "J", "S" >>
n_md         == << "n", ".", "m", "d" >>
dot_env      == << ".", "e", "n", "v" >>
sock         == << "s", "o", "c", "k" >>
lib          == << "l", "i", "b" >>
dot_git      == << ".", "g", "i", "t" >>
node_modules == << "n", "o", "d", "e", "_", "m", "o", "d", "u", "l", "e", "s" >>
pycache      == << "_", "_", "p", "y", "c", "a", "c", "h", "e", "_", "_" >>
venv         == << "v", "e", "n", "v" >>

\* item.name in ['node_modules', '__pycache__', 'venv']
IgnoreList == {node_modules, pycache, venv}

\* suffix in ['.js', '.jsx', '.ts', '.tsx']
JsSuffixes == { << ".", "j", "s" >>, << ".", "j", "s", "x" >>,
                << ".", "t", "s" >>, << ".", "t", "s", "x" >> }

PySuffix == << ".", "p", "y" >>

\* name in ['main.py', 'app.py', 'index.js', 'index.tsx', 'package.json']
MainFileNames ==
    { << "m", "a", "i", "n", ".", "p", "y" >>,
      app_py,
      << "i", "n", "d", "e", "x", ".", "j", "s" >>,
      << "i", "n", "d", "e", "x", ".", "t", "s", "x" >>,
      << "p", "a", "c", "k", "a", "g", "e", ".", "j", "s", "o", "n" >> }

\* 'analyzed_file_types': ['.py', '.js', '.jsx', '.ts', '.tsx', '.json', '.md']
AnalyzedFileTypes ==
    << PySuffix, << ".", "j", "s" >>, << ".", "j", "s", "x" >>, << ".", "t", "s" >>,
       << ".", "t", "s", "x" >>, << ".", "j", "s", "o", "n" >>, << ".", "m", "d" >> >>

-----------------------------------------------------------------------------
(* File content: whether the bytes decode as UTF-8, the length of the text *)
(* in characters, and the text line by line.  A line is one of              *)
(*   import <mod>            from <mod> import ..    class <name>:          *)
(*   def <name>(<args>):     pass                    (Python, with indent)  *)
(*   import x from "<path>"  function <name>() {}    const <name> = .. =>   *)
(*   class <name> {}         prose                                          *)

PyImport(mod, ind)      == [k |-> "import", indent |-> ind, mod |-> mod]
PyFrom(mod, ind)        == [k |-> "from", indent |-> ind, mod |-> mod]
PyClass(name, ind)      == [k |-> "class", indent |-> ind, name |-> name]
PyDef(name, args, ind)  == [k |-> "def", indent |-> ind, name |-> name, args |-> args]
PyPass(ind)             == [k |-> "pass", indent |-> ind]
JsImport(path)          == [k |-> "jsimport", indent |-> 0, path |-> path]
JsFunction(name)        == [k |-> "jsfunction", indent |-> 0, name |-> name]
JsConst(name)           == [k |-> "jsconst", indent |-> 0, name |-> name]
JsClass(name)           == [k |-> "jsclass", indent |-> 0, name |-> name]
Prose                   == [k |-> "prose", indent |-> 0]

os_path     == << "o", "s", ".", "p", "a", "t", "h" >>
os_         == << "o", "s" >>
react_hooks == << "r", "e", "a", "c", "t", "/", "h", "o", "o", "k", "s" >>

\* a Python module longer than the preview: two imports, a function, a class with a method
PySrc ==
    [decodable |-> TRUE, chars |-> 250,
     src |-> << PyImport(os_path, 0),
                PyImport(os_, 0),
                PyDef(<< "g" >>, << << "x" >> >>, 0),
                PyPass(1),
                PyClass(<< "c" >>, 0),
                PyDef(<< "m" >>, << << "s" >> >>, 1),
                PyPass(2) >>]

\* a JavaScript module; as Python it is a syntax error
JsSrc ==
    [decodable |-> TRUE, chars |-> 60,
     src |-> << JsImport(react_hooks), JsFunction(<< "h" >>) >>]

ProseSrc == [decodable |-> TRUE, chars |-> 12, src |-> << Prose >>]

\* bytes that are not UTF-8
Binary == [decodable |-> FALSE, chars |-> 0, src |-> << >>]

-----------------------------------------------------------------------------
(* Workspaces: what git clone can leave in the temporary directory.        *)
(* A directory is its access outcome (listable, permission denied, or an   *)
(* I/O error on listing) and its set of entries; an entry is a file with    *)
(* content, a directory, or something that is neither (a socket, a broken  *)
(* link).                                                                  *)

File(n, c)   == [name |-> n, kind |-> "file", content |-> c]
SubDir(n, d) == [name |-> n, kind |-> "dir", dir |-> d]
Other(n)     == [name |-> n, kind |-> "other"]

LeafEntries ==
    { File(app_py, PySrc), File(app_py, JsSrc), File(app_py, Binary),
      File(B_JS, JsSrc), File(B_JS, Binary),
      File(n_md, ProseSrc), File(n_md, Binary),
      File(dot_env, ProseSrc),
      Other(sock) }

DistinctNames(E) == \A e1, e2 \in E : e1.name = e2.name => e1 = e2

\* at most w leaf entries side by side
LeafSets(w) == {L \in SUBSET LeafEntries : Cardinality(L) <= w /\ DistinctNames(L)}

\* the leaf entries of the nested workspaces: at most one per directory
NestedLeafSets ==
    { {}, {File(app_py, PySrc)}, {File(app_py, JsSrc)}, {File(n_md, Binary)},
      {File(dot_env, ProseSrc)} }

\* what lies below a directory the walk must not enter
HiddenTree == [access |-> "ok", entries |-> {File(app_py, PySrc)}]

SkippedDirs == {SubDir(n, HiddenTree) : n \in IgnoreList \cup {dot_git}}

\* directories nested at most d deep below, their leaf entries one of the sets in leaves
RECURSIVE Dirs(_, _)
Dirs(d, leaves) ==
    LET subs == {{}} \cup {{e} : e \in SkippedDirs}
                \cup (IF d = 0 THEN {} ELSE {{SubDir(lib, x)} : x \in Dirs(d - 1, leaves)})
    IN  {[access |-> "ok", entries |-> L \cup E] : E \in subs, L \in leaves}
        \cup {[access |-> "denied", entries |-> {}], [access |-> "ioerr", entries |-> {}]}

Workspaces ==
    {d \in Dirs(MaxDepth, NestedLeafSets) \cup Dirs(0, LeafSets(MaxLeaves)) : d.access = "ok"}

-----------------------------------------------------------------------------
(* RepoAnalysis: the per-file analysers.  The accumulators of the instance *)
(* (dependencies, total_lines, total_files) are threaded as the record st. *)

\* content[:200] + '...' if len(content) > 200 else content
Preview(content) ==
    [shown  |-> IF content.chars > PreviewLen THEN PreviewLen ELSE content.chars,
     marker |-> content.chars > PreviewLen]

\* len(content.splitlines())
LineCount(content) == Len(content.src)

PyKinds == {"import", "from", "class", "def", "pass"}

\* ast.parse(content) succeeds: Python statements only, every class or def line
\* opens a block one level deeper and nothing else does
PyParses(src) ==
    /\ \A i \in 1..Len(src) : src[i].k \in PyKinds
    /\ Len(src) >= 1 => src[1].indent = 0
    /\ \A i \in 1..Len(src) :
          LET opens == src[i].k \in {"class", "def"}
          IN  IF i = Len(src) THEN ~opens
              ELSE IF opens THEN src[i + 1].indent = src[i].indent + 1
              ELSE src[i + 1].indent <= src[i].indent

MaxIndent(src) ==
    IF src = << >> THEN 0
    ELSE CHOOSE m \in {src[i].indent : i \in 1..Len(src)} :
            \A i \in 1..Len(src) : src[i].indent <= m

\* ast.walk(tree): breadth first, so by nesting level and within a level by line
RECURSIVE WalkFrom(_, _)
WalkFrom(src, d) ==
    IF d > MaxIndent(src) THEN << >>
    ELSE SelectSeq([i \in 1..Len(src) |-> i], LAMBDA i : src[i].indent = d)
         \o WalkFrom(src, d + 1)

\* Walk in the order of the lines: depth first
WalkInLineOrder(src) == [i \in 1..Len(src) |-> i]

Walk(src) == WalkFrom(src, 0)

\* the statements of node.body of the block opened at line i
Body(src, i) ==
    SelectSeq([j \in 1..Len(src) |-> j],
              LAMBDA j : /\ j > i
                         /\ src[j].indent = src[i].indent + 1
                         /\ \A m \in (i + 1)..j : src[m].indent > src[i].indent)

\* [n.name for n in node.body if isinstance(n, ast.FunctionDef)]
Methods(src, i) ==
    LET defs == SelectSeq(Body(src, i), LAMBDA j : src[j].k = "def")
    IN  [m \in 1..Len(defs) |-> src[defs[m]].name]

FromPrefix == << "f", "r", "o", "m", " " >>

\* AfterSomeClass that never holds: every function is taken as top-level
AfterNoClass(classes, lineno) == FALSE

\* any(node.lineno >= cls['line'] for cls in classes)
AfterSomeClass(classes, lineno) ==
    \E c \in 1..Len(classes) : lineno >= classes[c].line

\* one iteration of `for node in ast.walk(tree)` at the node of line i
VisitNode(acc, src, i) ==
    LET node == src[i]
    IN  CASE node.k = "import" ->
               [acc EXCEPT !.imports = Append(@, node.mod),
                           !.dependencies = @ \cup {SplitFirst(node.mod, ".")}]
          [] node.k = "from" ->
               IF node.mod # << >>
               THEN [acc EXCEPT !.imports = Append(@, FromPrefix \o node.mod),
                                !.dependencies = @ \cup {SplitFirst(node.mod, ".")}]
               ELSE acc
          [] node.k = "class" ->
               [acc EXCEPT !.classes =
                   Append(@, [name |-> node.name, line |-> i, methods |-> Methods(src, i)])]
          [] node.k = "def" ->
               IF ~AfterSomeClass(acc.classes, i)
               THEN [acc EXCEPT !.functions =
                        Append(@, [name |-> node.name, line |-> i, args |-> node.args])]
               ELSE acc
          [] OTHER -> acc

RECURSIVE WalkNodes(_, _, _)
WalkNodes(acc, src, order) ==
    IF order = << >> THEN acc
    ELSE WalkNodes(VisitNode(acc, src, Head(order)), src, Tail(order))

DecodeError == "codec can't decode"
SyntaxErrorText == "invalid syntax"

\* analyze_python_file that counts the lines before it parses
analyze_python_file_counting(st, content) ==
    LET lines == LineCount(content)
        counted == [st EXCEPT !.total_lines = @ + lines]
    IN  IF ~content.decodable
        THEN [analysis |-> [type |-> "python", error |-> DecodeError, lines |-> 0], st |-> st]
        ELSE IF ~PyParses(content.src)
        THEN [analysis |-> [type |-> "python", error |-> SyntaxErrorText, lines |-> lines],
              st |-> counted]
        ELSE LET acc == WalkNodes([imports |-> << >>, classes |-> << >>, functions |-> << >>,
                                   dependencies |-> st.dependencies],
                                  content.src, Walk(content.src))
             IN  [analysis |-> [type |-> "python", lines |-> lines, imports |-> acc.imports,
                                classes |-> acc.classes, functions |-> acc.functions,
                                content_preview |-> Preview(content)],
                  st |-> [counted EXCEPT !.dependencies = acc.dependencies]]

\* RepoAnalysis.analyze_python_file
analyze_python_file(st, content) ==
    IF ~content.decodable
    THEN [analysis |-> [type |-> "python", error |-> DecodeError, lines |-> 0], st |-> st]
    ELSE IF ~PyParses(content.src)
    THEN [analysis |-> [type |-> "python", error |-> SyntaxErrorText, lines |-> 0], st |-> st]
    ELSE LET acc == WalkNodes([imports |-> << >>, classes |-> << >>, functions |-> << >>,
                               dependencies |-> st.dependencies],
                              content.src, Walk(content.src))
             lines == LineCount(content)
         IN  [analysis |-> [type |-> "python", lines |-> lines, imports |-> acc.imports,
                            classes |-> acc.classes, functions |-> acc.functions,
                            content_preview |-> Preview(content)],
              st |-> [st EXCEPT !.dependencies = acc.dependencies,
                                !.total_lines = @ + lines]]

\* re.findall over the content, one possible match per line
Matches(src, kinds) ==
    LET hits == SelectSeq([i \in 1..Len(src) |-> i], LAMBDA i : src[i].k \in kinds)
    IN  [m \in 1..Len(hits) |-> src[hits[m]]]

\* RepoAnalysis.analyze_javascript_file
analyze_javascript_file(st, content) ==
    IF ~content.decodable
    THEN [analysis |-> [type |-> "javascript", error |-> DecodeError, lines |-> 0], st |-> st]
    ELSE LET imps  == Matches(content.src, {"jsimport"})
             funs  == Matches(content.src, {"jsfunction", "jsconst"})
             clss  == Matches(content.src, {"jsclass", "class"})
             lines == LineCount(content)
         IN  [analysis |-> [type |-> "javascript", lines |-> lines,
                            imports |-> [i \in 1..Len(imps) |-> imps[i].path],
                            functions |-> [i \in 1..Len(funs) |-> funs[i].name],
                            classes |-> [i \in 1..Len(clss) |-> clss[i].name],
                            content_preview |-> Preview(content)],
              st |-> [st EXCEPT
                        !.dependencies =
                            @ \cup {SplitFirst(imps[i].path, "/") : i \in 1..Len(imps)},
                        !.total_lines = @ + lines]]

\* analyze_text_file that reports an unreadable file the way the extractors do
analyze_text_file_error(st, content) ==
    IF content.decodable
    THEN [analysis |-> [type |-> "text", lines |-> LineCount(content),
                        content_preview |-> Preview(content)],
          st |-> [st EXCEPT !.total_lines = @ + LineCount(content)]]
    ELSE [analysis |-> [type |-> "text", error |-> DecodeError, lines |-> 0], st |-> st]

\* the else branch of analyze_file: any other file read as text
analyze_text_file(st, content) ==
    IF content.decodable
    THEN [analysis |-> [type |-> "text", lines |-> LineCount(content),
                        content_preview |-> Preview(content)],
          st |-> [st EXCEPT !.total_lines = @ + LineCount(content)]]
    ELSE [analysis |-> [type |-> "binary", lines |-> 0], st |-> st]

\* RepoAnalysis.analyze_file
analyze_file(st, name, content) ==
    LET suffix == Lower(Suffix(name))
    IN  IF suffix = PySuffix THEN analyze_python_file(st, content)
        ELSE IF suffix \in JsSuffixes THEN analyze_javascript_file(st, content)
        ELSE analyze_text_file(st, content)

-----------------------------------------------------------------------------
(* RepoAnalysis: the tree builder.  A tree is a Python dict in insertion    *)
(* order: a sequence of [name, info].  A result carries the tree, the       *)
(* accumulators and whether an exception left the call.                     *)

\* RepoAnalysis.__init__
NewAnalysis ==
    [structure |-> << >>, dependencies |-> {}, total_lines |-> 0, total_files |-> 0]

Accumulators(an) ==
    [dependencies |-> an.dependencies, total_lines |-> an.total_lines,
     total_files |-> an.total_files]

\* path.iterdir(): the entries in the platform's order
IterDir(dir, ord) ==
    LET names == ListOfSet({e.name : e \in dir.entries}, ord)
    IN  [i \in 1..Len(names) |-> CHOOSE e \in dir.entries : e.name = names[i]]

\* SortedItems that leaves the listing as the platform gave it
UnsortedItems(listing) == listing

\* sorted(path.iterdir()): siblings compare by name
SortedItems(listing) ==
    LET names == Sorted([i \in 1..Len(listing) |-> listing[i].name])
    IN  [i \in 1..Len(names) |-> CHOOSE e \in Range(listing) : e.name = names[i]]

\* Ignored without its list of names
IgnoredHiddenOnly(name) == StartsWith(name, ".")

\* item.name.startswith('.') or item.name in ['node_modules', '__pycache__', 'venv']
Ignored(name) == StartsWith(name, ".") \/ name \in IgnoreList

\* DepthExceeded one level late
DepthExceededLate(current_depth, max_depth) == current_depth > max_depth + 1

\* `if current_depth > max_depth`
DepthExceeded(current_depth, max_depth) == current_depth > max_depth

\* NotEmpty that keeps every subtree
AlwaysKept(subtree) == TRUE

\* `if subtree:` -- a dict is true when it is not empty
NotEmpty(subtree) == subtree # << >>

RECURSIVE build_file_tree(_, _, _, _, _, _)
RECURSIVE BuildItems(_, _, _, _, _, _, _)

\* the body of `for item in sorted(path.iterdir())`, over the items still to visit
BuildItems(st, items, tree, path, max_depth, current_depth, ord) ==
    IF items = << >> THEN [tree |-> tree, st |-> st, raised |-> FALSE]
    ELSE
      LET item == Head(items)
          rest == Tail(items)
      IN  IF Ignored(item.name)
          THEN BuildItems(st, rest, tree, path, max_depth, current_depth, ord)
          ELSE IF item.kind = "file"
          THEN LET counted == [st EXCEPT !.total_files = @ + 1]
                   fa == analyze_file(counted, item.name, item.content)
                   node == [type |-> "file", path |-> Append(path, item.name),
                            analysis |-> fa.analysis]
               IN  BuildItems(fa.st, rest, Append(tree, [name |-> item.name, info |-> node]),
                              path, max_depth, current_depth, ord)
          ELSE IF item.kind = "dir"
          THEN LET sub == build_file_tree(st, item.dir, Append(path, item.name),
                                          max_depth, current_depth + 1, ord)
               IN  IF sub.raised THEN [tree |-> tree, st |-> sub.st, raised |-> TRUE]
                   ELSE IF NotEmpty(sub.tree)
                   THEN BuildItems(sub.st, rest,
                                   Append(tree, [name |-> item.name,
                                                 info |-> [type |-> "directory",
                                                           children |-> sub.tree]]),
                                   path, max_depth, current_depth, ord)
                   ELSE BuildItems(sub.st, rest, tree, path, max_depth, current_depth, ord)
          ELSE BuildItems(st, rest, tree, path, max_depth, current_depth, ord)

\* RepoAnalysis.build_file_tree; path is the directory relative to repo_path
build_file_tree(st, dir, path, max_depth, current_depth, ord) ==
    IF DepthExceeded(current_depth, max_depth) THEN [tree |-> << >>, st |-> st, raised |-> FALSE]
    ELSE IF dir.access = "denied" THEN [tree |-> << >>, st |-> st, raised |-> FALSE]
    ELSE IF dir.access = "ioerr" THEN [tree |-> << >>, st |-> st, raised |-> TRUE]
    ELSE BuildItems(st, SortedItems(IterDir(dir, ord)), << >>, path,
                    max_depth, current_depth, ord)

\* TopDependencies without the sort
TopDependenciesUnsorted(deps, n, ord) == Take(ListOfSet(deps, ord), n)

\* sorted(list(self.dependencies))[:n]
TopDependencies(deps, n, ord) == Take(Sorted(ListOfSet(deps, ord)), n)

\* RepoAnalysis.generate_repo_map on the instance an over the directory root
generate_repo_map(an, root, ord) ==
    LET b == build_file_tree(Accumulators(an), root, << >>, DefaultMaxDepth, 0, ord)
        after == [structure |-> b.tree, dependencies |-> b.st.dependencies,
                  total_lines |-> b.st.total_lines, total_files |-> b.st.total_files]
    IN  IF b.raised
        THEN [raised |-> TRUE,
              an |-> [an EXCEPT !.dependencies = b.st.dependencies,
                                !.total_lines = b.st.total_lines,
                                !.total_files = b.st.total_files]]
        ELSE [raised |-> FALSE, an |-> after,
              map |-> [repository_structure |-> after.structure,
                       statistics |->
                          [total_files |-> after.total_files,
                           total_lines |-> after.total_lines,
                           top_dependencies |->
                               TopDependencies(after.dependencies, TopDepsLen, ord)],
                       analysis_metadata |->
                          [repo_path |-> "tmp", analyzed_file_types |-> AnalyzedFileTypes]]]

RECURSIVE explain_directory(_, _)

\* explain_directory that lists what is below a directory after the
\* directory's later siblings
explain_directory_siblings_first(tree, level) ==
    IF tree = << >> THEN << >>
    ELSE
      LET name == Head(tree).name
          info == Head(tree).info
          line ==
            IF info.type = "directory"
            THEN [indent |-> level, name |-> name, says |-> "directory", n |-> 0]
            ELSE LET analysis == info.analysis
                     has(f) == f \in DOMAIN analysis /\ analysis[f] # << >>
                 IN  IF analysis.type = "python" /\ has("classes")
                     THEN [indent |-> level, name |-> name, says |-> "classes",
                           n |-> Len(analysis.classes)]
                     ELSE IF analysis.type = "javascript" /\ has("functions")
                     THEN [indent |-> level, name |-> name, says |-> "functions",
                           n |-> Len(analysis.functions)]
                     ELSE [indent |-> level, name |-> name, says |-> "lines",
                           n |-> analysis.lines]
          below == IF info.type = "directory"
                   THEN explain_directory(info.children, level + 1)
                   ELSE << >>
      IN  << line >> \o explain_directory(Tail(tree), level) \o below

\* explain_directory(tree, level): the lines of the structure section
explain_directory(tree, level) ==
    IF tree = << >> THEN << >>
    ELSE
      LET name == Head(tree).name
          info == Head(tree).info
          here ==
            IF info.type = "directory"
            THEN << [indent |-> level, name |-> name, says |-> "directory", n |-> 0] >>
                 \o explain_directory(info.children, level + 1)
            ELSE LET analysis == info.analysis
                     has(f) == f \in DOMAIN analysis /\ analysis[f] # << >>
                 IN  IF analysis.type = "python" /\ has("classes")
                     THEN << [indent |-> level, name |-> name, says |-> "classes",
                              n |-> Len(analysis.classes)] >>
                     ELSE IF analysis.type = "javascript" /\ has("functions")
                     THEN << [indent |-> level, name |-> name, says |-> "functions",
                              n |-> Len(analysis.functions)] >>
                     ELSE << [indent |-> level, name |-> name, says |-> "lines",
                              n |-> analysis.lines] >>
      IN  here \o explain_directory(Tail(tree), level)

\* the entry points among the top-level files of self.structure
MainFiles(structure) ==
    LET hits == SelectSeq(structure,
                    LAMBDA e : e.info.type = "file" /\ e.name \in MainFileNames)
    IN  [i \in 1..Len(hits) |-> hits[i].name]

\* RepoAnalysis.generate_repo_tour: the markdown text, section by section
generate_repo_tour(an, ord) ==
    [overview         |-> [files |-> an.total_files, lines |-> an.total_lines],
     stats            |-> [total_files |-> an.total_files,
                           lines_of_code |-> an.total_lines,
                           key_dependencies |->
                               TopDependencies(an.dependencies, TourDepsLen, ord)],
     structure        |-> explain_directory(an.structure, 0),
     key_files        |-> MainFiles(an.structure),
     dependencies     |-> TopDependencies(an.dependencies, TopDepsLen, ord)]

-----------------------------------------------------------------------------
(* The transport layer: clone_repository and analyze_repository            *)

None     == [none |-> TRUE]
EmptyDir == [access |-> "ok", entries |-> {}]

\* shutil.rmtree(path) can list every directory below path
RECURSIVE Removable(_)
Removable(dir) ==
    /\ dir.access = "ok"
    /\ \A e \in dir.entries : e.kind = "dir" => Removable(e.dir)

\* str(e) of the exceptions that reach the handler
CloneErrorText  == "400: Failed to clone repository"
ListErrorText   == "Input/output error"
RemoveErrorText == "Permission denied"

\* `except Exception as e: return {'success': False, 'error': str(e)}`
FailureEnvelope(text) ==
    [status |-> OkStatus, body |-> [success |-> FALSE, error |-> text]]

\* `return {'success': True, 'repo_map': ..., 'repo_tour': ..., 'repo_url': ...}`
SuccessEnvelope(map, tour) ==
    [status |-> OkStatus,
     body |-> [success |-> TRUE, repo_map |-> map, repo_tour |-> tour, repo_url |-> "url"]]

Init ==
    /\ pc = "request"
    /\ tempdir = "absent"
    /\ ws = EmptyDir
    /\ repo_path = [set |-> FALSE]
    /\ analyzer = None
    /\ repo_map = None
    /\ repo_tour = None
    /\ response = None
    /\ reports = << >>
    /\ tree_out = None

\* clone_repository returns: mkdtemp, then git clone fills the directory
CloneSucceeds ==
    /\ pc = "request"
    /\ \E w \in Workspaces : ws' = w
    /\ tempdir' = "present"
    /\ repo_path' = [set |-> TRUE]
    /\ pc' = "cloned"
    /\ UNCHANGED <<analyzer, repo_map, repo_tour, response, reports, tree_out>>

\* clone_repository raises HTTPException(400) after mkdtemp; the handler's
\* `except Exception` catches it
CloneFails ==
    /\ pc = "request"
    /\ tempdir' = "present"
    /\ ws' = EmptyDir
    /\ response' = FailureEnvelope(CloneErrorText)
    /\ pc' = "done"
    /\ UNCHANGED <<repo_path, analyzer, repo_map, repo_tour, reports, tree_out>>

\* analyzer = RepoAnalysis(repo_path); repo_map = analyzer.generate_repo_map()
AnalyzeMap ==
    /\ pc = "cloned"
    /\ \E ord \in Orders :
          LET r == generate_repo_map(NewAnalysis, ws, ord)
          IN  /\ analyzer' = r.an
              /\ IF r.raised
                 THEN /\ response' = FailureEnvelope(ListErrorText)
                      /\ pc' = "done"
                      /\ UNCHANGED repo_map
                 ELSE /\ repo_map' = r.map
                      /\ pc' = "mapped"
                      /\ UNCHANGED response
    /\ UNCHANGED <<tempdir, ws, repo_path, repo_tour, reports, tree_out>>

\* repo_tour = analyzer.generate_repo_tour()
AnalyzeTour ==
    /\ pc = "mapped"
    /\ \E ord \in Orders : repo_tour' = generate_repo_tour(analyzer, ord)
    /\ pc' = "toured"
    /\ UNCHANGED <<tempdir, ws, repo_path, analyzer, repo_map, response, reports, tree_out>>

\* shutil.rmtree(repo_path), then the success body; rmtree raising is caught too
CleanUpAndReturn ==
    /\ pc = "toured"
    /\ IF Removable(ws)
       THEN /\ tempdir' = "absent"
            /\ ws' = EmptyDir
            /\ response' = SuccessEnvelope(repo_map, repo_tour)
       ELSE /\ response' = FailureEnvelope(RemoveErrorText)
            /\ UNCHANGED <<tempdir, ws>>
    /\ pc' = "done"
    /\ UNCHANGED <<repo_path, analyzer, repo_map, repo_tour, reports, tree_out>>

Next == CloneSucceeds \/ CloneFails \/ AnalyzeMap \/ AnalyzeTour \/ CleanUpAndReturn

Spec == Init /\ [][Next]_vars

-----------------------------------------------------------------------------
(* The engine alone over one workspace: runs as the transport layer makes   *)
(* them (a new RepoAnalysis, generate_repo_map, generate_repo_tour), and    *)
(* build_file_tree called with a max_depth of its own.                      *)

InitEngine ==
    /\ pc = "engine"
    /\ tempdir = "present"
    /\ ws \in Workspaces
    /\ repo_path = [set |-> TRUE]
    /\ analyzer = None
    /\ repo_map = None
    /\ repo_tour = None
    /\ response = None
    /\ reports = << >>
    /\ tree_out = None

EngineRun ==
    /\ pc = "engine"
    /\ Len(reports) < MaxRuns
    /\ \E ord \in Orders :
          LET r == generate_repo_map(NewAnalysis, ws, ord)
          IN  /\ analyzer' = r.an
              /\ IF r.raised
                 THEN /\ reports' = Append(reports, [raised |-> TRUE])
                      /\ repo_map' = None
                      /\ repo_tour' = None
                 ELSE LET tour == generate_repo_tour(r.an, ord)
                      IN  /\ reports' = Append(reports, [raised |-> FALSE, map |-> r.map,
                                                         tour |-> tour])
                          /\ repo_map' = r.map
                          /\ repo_tour' = tour
    /\ UNCHANGED <<pc, tempdir, ws, repo_path, response, tree_out>>

EngineBuild ==
    /\ pc = "engine"
    /\ reports = << >>
    /\ \E md \in 0..MaxDepthArg, ord \in Orders :
          tree_out' = [max_depth |-> md,
                       result |-> build_file_tree(Accumulators(NewAnalysis), ws, << >>,
                                                  md, 0, ord)]
    /\ pc' = "built"
    /\ UNCHANGED <<tempdir, ws, repo_path, analyzer, repo_map, repo_tour, response, reports>>

NextEngine == EngineRun \/ EngineBuild

SpecEngine == InitEngine /\ [][NextEngine]_vars

-----------------------------------------------------------------------------
(* The dependency view on its own: one RepoAnalysis analyses files that     *)
(* import the modules of a small universe, in any order, and the report and *)
(* the tour are then generated from its dependency set.                     *)

IdentLetters == << "e", "d", "c", "b", "a" >>

\* the i-th identifier: e, d, c, b, a, ee, ed, ...
Ident(i) ==
    IF i <= Len(IdentLetters) THEN << IdentLetters[i] >>
    ELSE << IdentLetters[(i - 1) \div Len(IdentLetters)],
            IdentLetters[((i - 1) % Len(IdentLetters)) + 1] >>

\* a Python file `import <id>.x` and a JavaScript file `import x from "<id>/x"`
ImportingFile(i, name) ==
    IF name = app_py
    THEN [decodable |-> TRUE, chars |-> 10, src |-> << PyImport(Ident(i) \o << ".", "x" >>, 0) >>]
    ELSE [decodable |-> TRUE, chars |-> 10, src |-> << JsImport(Ident(i) \o << "/", "x" >>) >>]

InitDeps ==
    /\ pc = "deps"
    /\ tempdir = "present"
    /\ ws = EmptyDir
    /\ repo_path = [set |-> TRUE]
    /\ analyzer = NewAnalysis
    /\ repo_map = None
    /\ repo_tour = None
    /\ response = None
    /\ reports = << >>
    /\ tree_out = None

\* analyze_file on one more importing file
DepsAnalyzeFile ==
    /\ pc = "deps"
    /\ \E i \in 1..NumDeps, name \in {app_py, B_JS} :
          /\ Ident(i) \notin analyzer.dependencies
          /\ LET fa == analyze_file(Accumulators(analyzer), name, ImportingFile(i, name))
             IN  analyzer' = [analyzer EXCEPT !.dependencies = fa.st.dependencies,
                                              !.total_lines = fa.st.total_lines]
    /\ UNCHANGED <<pc, tempdir, ws, repo_path, repo_map, repo_tour, response, reports, tree_out>>

\* generate_repo_map, then generate_repo_tour, on that instance
DepsReport ==
    /\ pc = "deps"
    /\ \E ord \in Orders :
          LET r == generate_repo_map(analyzer, ws, ord)
          IN  /\ analyzer' = r.an
              /\ repo_map' = r.map
              /\ repo_tour' = generate_repo_tour(r.an, ord)
    /\ pc' = "reported"
    /\ UNCHANGED <<tempdir, ws, repo_path, response, reports, tree_out>>

NextDeps == DepsAnalyzeFile \/ DepsReport

SpecDeps == InitDeps /\ [][NextDeps]_vars

-----------------------------------------------------------------------------
(* The Python analyser on its own: a workspace holding one file app.py,    *)
(* whose text is any well-indented sequence of class, def and pass lines   *)
(* (or text that is not Python, or bytes that are not text), analysed by   *)
(* analyze_file on a new RepoAnalysis.                                     *)

\* the class, def or pass lines that line i of a file can be
PyLines(i) ==
    {PyClass(Ident(i), ind) : ind \in 0..MaxNest}
    \cup {PyDef(Ident(i), << >>, ind) : ind \in 0..MaxNest}
    \cup {PyPass(ind) : ind \in 0..MaxNest}

\* line l can follow the lines of s: a block opens after class and def only
PyFollows(s, l) ==
    IF s = << >> THEN l.indent = 0
    ELSE LET last == s[Len(s)]
         IN  IF last.k \in {"class", "def"} THEN l.indent = last.indent + 1
             ELSE l.indent <= last.indent

\* the well-indented texts of exactly n lines
RECURSIVE PyTexts(_)
PyTexts(n) ==
    IF n = 0 THEN {<< >>}
    ELSE {t \in {Append(s, l) : s \in PyTexts(n - 1), l \in PyLines(n)} :
             PyFollows(SubSeq(t, 1, n - 1), t[n])}

PyContents ==
    {[decodable |-> TRUE, chars |-> Len(t), src |-> t] :
        t \in {u \in UNION {PyTexts(n) : n \in 0..MaxPyLines} : PyParses(u)}}
    \cup {JsSrc, Binary}

InitPy ==
    /\ pc = "py"
    /\ tempdir = "present"
    /\ ws \in {[access |-> "ok", entries |-> {File(app_py, c)}] : c \in PyContents}
    /\ repo_path = [set |-> TRUE]
    /\ analyzer = NewAnalysis
    /\ repo_map = None
    /\ repo_tour = None
    /\ response = None
    /\ reports = << >>
    /\ tree_out = None

\* analyze_file on the file of the workspace
PyAnalyze ==
    /\ pc = "py"
    /\ \E f \in ws.entries :
          LET fa == analyze_file(Accumulators(analyzer), f.name, f.content)
          IN  /\ tree_out' = [analysis |-> fa.analysis]
              /\ analyzer' = [analyzer EXCEPT !.dependencies = fa.st.dependencies,
                                               !.total_lines = fa.st.total_lines]
    /\ pc' = "analysed"
    /\ UNCHANGED <<tempdir, ws, repo_path, repo_map, repo_tour, response, reports>>

NextPy == PyAnalyze

SpecPy == InitPy /\ [][NextPy]_vars

-----------------------------------------------------------------------------
(* One RepoAnalysis used again: generate_repo_map called several times on  *)
(* the same instance over a workspace that does not change.                *)

InitReuse ==
    /\ pc = "reuse"
    /\ tempdir = "present"
    /\ ws \in Workspaces
    /\ repo_path = [set |-> TRUE]
    /\ analyzer = NewAnalysis
    /\ repo_map = None
    /\ repo_tour = None
    /\ response = None
    /\ reports = << >>
    /\ tree_out = None

\* analyzer.generate_repo_map() once more
MapAgain ==
    /\ pc = "reuse"
    /\ Len(reports) < MaxCalls
    /\ \E ord \in Orders :
          LET r == generate_repo_map(analyzer, ws, ord)
          IN  /\ analyzer' = r.an
              /\ IF r.raised
                 THEN /\ reports' = Append(reports, [raised |-> TRUE])
                      /\ repo_map' = None
                 ELSE /\ reports' = Append(reports, [raised |-> FALSE, map |-> r.map])
                      /\ repo_map' = r.map
    /\ UNCHANGED <<pc, tempdir, ws, repo_path, repo_tour, response, tree_out>>

NextReuse == MapAgain

SpecReuse == InitReuse /\ [][NextReuse]_vars

-----------------------------------------------------------------------------
(* Properties of the request handler, under Spec                           *)

Done == pc = "done"

\* C1: for every request in which clone_repository succeeded, the cloned
\* workspace directory has been deleted when the handler returns, on every exit
\* path: after a normal run and after generate_repo_map or generate_repo_tour
\* raised.
C1_WorkspaceReleasedOnEveryExit ==
    (Done /\ repo_path.set) => tempdir = "absent"

\* C2: when clone_repository does not return a path, the handler's output is the
\* failure envelope {success: false, error: <non-empty text>} and no directory
\* created for the request remains.
C2_AcquisitionFailureLeavesNothing ==
    (Done /\ ~repo_path.set) =>
        /\ response.body.success = FALSE
        /\ response.body.error # ""
        /\ tempdir = "absent"

\* C3: an acquisition failure reaches the caller with the client-error status
\* 400, every other failure of the run as the generic {success: false, error}
\* body, so that the two are told apart by the response.
C3_AcquisitionFailureHasClientErrorStatus ==
    /\ (Done /\ ~repo_path.set) => response.status = CloneErrorStatus
    /\ (Done /\ repo_path.set /\ ~response.body.success) =>
          /\ response.status = OkStatus
          /\ DOMAIN response.body = {"success", "error"}

-----------------------------------------------------------------------------
(* Properties of the engine, under SpecEngine.  What the claims say of the  *)
(* workspace is computed here from the workspace itself, apart from the     *)
(* builder.                                                                 *)

\* a name that starts with '.' or is node_modules, __pycache__ or venv
RefIgnored(n) == n[1] = "." \/ n \in {node_modules, pycache, venv}

AscendingOrder == [rev |-> FALSE, rot |-> 0]

\* the files within the depth bound: below listable, non-ignored directories of
\* depth at most md, the root having depth 0
RECURSIVE RefVisible(_, _, _, _)
RefVisible(dir, path, depth, md) ==
    IF depth > md \/ dir.access # "ok" THEN {}
    ELSE UNION { CASE e.kind = "file" ->
                        {[path |-> Append(path, e.name), content |-> e.content]}
                   [] e.kind = "dir" ->
                        RefVisible(e.dir, Append(path, e.name), depth + 1, md)
                   [] OTHER -> {}
                 : e \in {x \in dir.entries : ~RefIgnored(x.name)} }

\* the non-ignored directories below dir, at any depth
RECURSIVE RefDirs(_, _, _)
RefDirs(dir, path, depth) ==
    IF dir.access # "ok" THEN {}
    ELSE UNION { {[path |-> Append(path, e.name), dir |-> e.dir, depth |-> depth + 1]}
                 \cup RefDirs(e.dir, Append(path, e.name), depth + 1)
                 : e \in {x \in dir.entries : x.kind = "dir" /\ ~RefIgnored(x.name)} }

\* listing some directory of depth at most md fails with an I/O error
RECURSIVE RefRaises(_, _, _)
RefRaises(dir, depth, md) ==
    /\ depth <= md
    /\ \/ dir.access = "ioerr"
       \/ /\ dir.access = "ok"
          /\ \E e \in dir.entries :
                e.kind = "dir" /\ ~RefIgnored(e.name) /\ RefRaises(e.dir, depth + 1, md)

\* the workspace without its ignored entries
RECURSIVE Strip(_)
Strip(dir) ==
    [dir EXCEPT !.entries =
        { IF e.kind = "dir" THEN SubDir(e.name, Strip(e.dir)) ELSE e
          : e \in {x \in dir.entries : ~RefIgnored(x.name)} }]

\* the file nodes of a tree, at any depth
RECURSIVE TreeFileNodes(_)
TreeFileNodes(tree) ==
    UNION { IF tree[i].info.type = "file" THEN {tree[i].info}
            ELSE TreeFileNodes(tree[i].info.children)
            : i \in 1..Len(tree) }

\* the directory nodes of a tree: path, depth and number of children
RECURSIVE TreeDirNodes(_, _, _)
TreeDirNodes(tree, path, depth) ==
    UNION { IF tree[i].info.type = "directory"
            THEN {[path |-> Append(path, tree[i].name), depth |-> depth,
                   width |-> Len(tree[i].info.children)]}
                 \cup TreeDirNodes(tree[i].info.children, Append(path, tree[i].name),
                                   depth + 1)
            ELSE {}
            : i \in 1..Len(tree) }

\* every name in a tree, at any depth
RECURSIVE TreeNames(_)
TreeNames(tree) ==
    UNION { {tree[i].name} \cup
            (IF tree[i].info.type = "directory" THEN TreeNames(tree[i].info.children)
             ELSE {})
            : i \in 1..Len(tree) }

RECURSIVE SumLines(_)
SumLines(nodes) ==
    IF nodes = {} THEN 0
    ELSE LET f == CHOOSE x \in nodes : TRUE
         IN  f.analysis.lines + SumLines(nodes \ {f})

\* the trees the engine has returned in this state, each with its depth bound
\* and the counters that go with it
RunOutcome ==
    IF reports # << >> /\ ~reports[Len(reports)].raised
    THEN {[md |-> DefaultMaxDepth, tree |-> analyzer.structure,
           files |-> analyzer.total_files, lines |-> analyzer.total_lines,
           deps |-> analyzer.dependencies]}
    ELSE {}

BuildOutcome ==
    IF pc = "built" /\ ~tree_out.result.raised
    THEN {[md |-> tree_out.max_depth, tree |-> tree_out.result.tree,
           files |-> tree_out.result.st.total_files,
           lines |-> tree_out.result.st.total_lines,
           deps |-> tree_out.result.st.dependencies]}
    ELSE {}

Outcomes == RunOutcome \cup BuildOutcome

\* the workspace holds something ignored below the root's lib directory
IgnoredBelowLib ==
    \E e \in ws.entries :
        /\ e.kind = "dir" /\ e.name = lib /\ e.dir.access = "ok"
        /\ \E x \in e.dir.entries : RefIgnored(x.name)

\* C4: an entry whose name starts with '.' or is node_modules, __pycache__ or
\* venv, at any depth, is not in the tree build_file_tree returns, nor is
\* anything below it, and it adds nothing to total_files or total_lines: the
\* result is that of the workspace without its ignored entries.
C4_IgnoredEntriesLeaveNoTrace ==
    \A o \in Outcomes :
        /\ \A n \in TreeNames(o.tree) : ~RefIgnored(n)
        /\ \A f \in TreeFileNodes(o.tree) :
              \A i \in 1..Len(f.path) : ~RefIgnored(f.path[i])
        /\ LET b == build_file_tree(Accumulators(NewAnalysis), Strip(ws), << >>,
                                    o.md, 0, AscendingOrder)
           IN  /\ o.tree = b.tree
               /\ o.files = b.st.total_files
               /\ o.lines = b.st.total_lines
        /\ o.files = Cardinality(RefVisible(ws, << >>, 0, o.md))

C4_Witness ==
    /\ IgnoredBelowLib
    /\ \E e \in ws.entries : RefIgnored(e.name)
    /\ \E o \in Outcomes : o.files > 0 /\ \E d \in TreeDirNodes(o.tree, << >>, 1) : TRUE

\* the files and the I/O failures the depth bound md leaves in reach
InReach(md) == RefVisible(ws, << >>, 0, md)

\* C5: with the root at depth 0, a directory deeper than max_depth is never
\* listed (its I/O errors are not met, its files are neither recorded nor
\* counted) and it is absent from its parent rather than present without
\* children.
C5_DeeperThanMaxDepthIsAbsent ==
    pc = "built" =>
        LET md == tree_out.max_depth
            r  == tree_out.result
        IN  /\ r.raised <=> RefRaises(ws, 0, md)
            /\ ~r.raised =>
                  /\ \A d \in TreeDirNodes(r.tree, << >>, 1) : d.depth <= md /\ d.width >= 1
                  /\ {f.path : f \in TreeFileNodes(r.tree)} = {v.path : v \in InReach(md)}
                  /\ r.st.total_files = Cardinality(InReach(md))

\* a file two directories down, which a max_depth of 1 leaves out while the
\* files of the directory above it are recorded
C5_Witness ==
    /\ pc = "built"
    /\ tree_out.max_depth = 1
    /\ ~tree_out.result.raised
    /\ \E d \in RefDirs(ws, << >>, 0) :
          d.depth = 2 /\ RefVisible(d.dir, d.path, 0, 0) # {}
    /\ tree_out.result.st.total_files > 0

\* C6: every directory node of the returned tree has a child: a directory that
\* is empty, holds only ignored entries or holds only pruned directories has no
\* entry in its parent and changes neither total_files nor total_lines.
C6_NoEmptyDirectoryNodes ==
    \A o \in Outcomes :
        /\ \A d \in TreeDirNodes(o.tree, << >>, 1) : d.width >= 1
        /\ {d.path : d \in TreeDirNodes(o.tree, << >>, 1)}
              = {d.path : d \in {x \in RefDirs(ws, << >>, 0) :
                                    RefVisible(x.dir, x.path, x.depth, o.md) # {}}}
        /\ o.files = Cardinality(InReach(o.md))
        /\ o.lines = SumLines(TreeFileNodes(o.tree))

\* lib holds only a directory that holds nothing recorded, next to a recorded file
C6_Witness ==
    /\ \E e \in ws.entries :
          /\ e.kind = "dir" /\ e.name = lib /\ e.dir.access = "ok"
          /\ Cardinality(e.dir.entries) = 1
          /\ \E x \in e.dir.entries :
                x.kind = "dir" /\ x.name = lib /\ x.dir.access = "ok"
                /\ \A y \in x.dir.entries : RefIgnored(y.name)
    /\ \E o \in RunOutcome : o.files > 0 /\ TreeDirNodes(o.tree, << >>, 1) = {}

\* the content on disk of the file a node was made from
ContentOf(f, reach) == (CHOOSE v \in reach : v.path = f.path).content

IsPy(f) == Lower(Suffix(f.path[Len(f.path)])) = << ".", "p", "y" >>
IsJs(f) == Lower(Suffix(f.path[Len(f.path)])) \in
              { << ".", "j", "s" >>, << ".", "j", "s", "x" >>,
                << ".", "t", "s" >>, << ".", "t", "s", "x" >> }

\* structural extraction of the file fails: it does not decode, or it is
\* Python that does not parse
ExtractionFails(f, c) ==
    \/ IsPy(f) /\ (~c.decodable \/ ~PyParses(c.src))
    \/ IsJs(f) /\ ~c.decodable

SummaryFields == {"imports", "classes", "functions"}

EveryFileInReachRecorded(o) ==
    {f.path : f \in TreeFileNodes(o.tree)} = {v.path : v \in InReach(o.md)}

\* C7: a Variant-A or Variant-B file whose extraction fails has a node with an
\* error description, 0 lines and no imports/classes/functions, and the walk
\* goes on: every other file in reach is in the tree with its own analysis. A
\* node has the structural summary iff its kind is structured and its
\* extraction succeeded.
C7_ExtractionFailureIsLocal ==
    \A o \in Outcomes :
      LET reach == InReach(o.md)
      IN
        /\ EveryFileInReachRecorded(o)
        /\ \A f \in TreeFileNodes(o.tree) :
              LET a == f.analysis
                  c == ContentOf(f, reach)
                  failed == ExtractionFails(f, c)
              IN  /\ failed => /\ "error" \in DOMAIN a
                               /\ a.error # ""
                               /\ a.lines = 0
                               /\ SummaryFields \cap DOMAIN a = {}
                  /\ (SummaryFields \subseteq DOMAIN a) <=> ((IsPy(f) \/ IsJs(f)) /\ ~failed)
                  /\ (SummaryFields \cap DOMAIN a # {}) => (SummaryFields \subseteq DOMAIN a)
                  /\ (~failed /\ c.decodable) =>
                        a.lines = Len(c.src) /\ "error" \notin DOMAIN a

\* app.py does not parse and the file listed after it is analysed all the same
C7_Witness ==
    \E o \in RunOutcome :
        \E i, j \in 1..Len(o.tree) :
            /\ i < j
            /\ o.tree[i].info.type = "file" /\ o.tree[j].info.type = "file"
            /\ o.tree[i].name = app_py
            /\ "error" \in DOMAIN o.tree[i].info.analysis
            /\ "content_preview" \in DOMAIN o.tree[j].info.analysis
            /\ o.tree[j].info.analysis.lines > 0

UnreadableOutcome == [type |-> "binary", lines |-> 0]

\* C8 as stated: any visited file whose bytes do not decode is recorded as kind
\* 'binary' with 0 lines, no preview and no error text, and the other files are
\* recorded unaffected.
C8_EveryUndecodableFileIsBinary ==
    \A o \in Outcomes :
      LET reach == InReach(o.md)
      IN
        /\ EveryFileInReachRecorded(o)
        /\ \A f \in TreeFileNodes(o.tree) :
              ~ContentOf(f, reach).decodable => f.analysis = UnreadableOutcome

\* C8 amended: a visited file that is neither .py nor .js/.jsx/.ts/.tsx and
\* whose bytes do not decode is recorded as kind 'binary' with 0 lines, no
\* preview and no error text; an undecodable .py or .js/.jsx/.ts/.tsx file is
\* recorded under its own kind with an error text, 0 lines and no preview; in
\* both cases the other files are recorded with their own line counts.
C8_UndecodableFileByKind ==
    \A o \in Outcomes :
      LET reach == InReach(o.md)
      IN
        /\ EveryFileInReachRecorded(o)
        /\ \A f \in TreeFileNodes(o.tree) :
              LET a == f.analysis
                  c == ContentOf(f, reach)
              IN  IF ~c.decodable
                  THEN IF IsPy(f) \/ IsJs(f)
                       THEN /\ a.type = (IF IsPy(f) THEN "python" ELSE "javascript")
                            /\ DOMAIN a = {"type", "error", "lines"}
                            /\ a.error # ""
                            /\ a.lines = 0
                       ELSE a = UnreadableOutcome
                  ELSE (a.type # "binary") /\
                       ("error" \notin DOMAIN a => a.lines = Len(c.src))

\* n.md does not decode and a file beside it is recorded with its lines
C8_Witness ==
    \E o \in RunOutcome :
        \E i, j \in 1..Len(o.tree) :
            /\ o.tree[i].info.type = "file" /\ o.tree[j].info.type = "file"
            /\ o.tree[j].name = n_md
            /\ o.tree[j].info.analysis = UnreadableOutcome
            /\ o.tree[i].info.analysis.lines > 0

-----------------------------------------------------------------------------
(* Properties of the dependency view, under SpecDeps                        *)

StrictlyAscending(sq) == \A i \in 1..(Len(sq) - 1) : StrLess(sq[i], sq[i + 1])

\* view is the first n entries of full, all of full when it is shorter
PrefixOfLength(view, full, n) ==
    /\ Len(view) = (IF Len(full) < n THEN Len(full) ELSE n)
    /\ \A i \in 1..Len(view) : view[i] = full[i]

\* C9: whatever the order of insertion and of iteration, the top-dependencies
\* view has no duplicates, ascends lexicographically and is a prefix of the
\* full sorted dependency set: of at most 10 entries in the report's statistics
\* and the tour's closing section, of at most 5 in the tour's header.
C9_TopDependenciesSortedAndBounded ==
    pc = "reported" =>
        LET full == Ascending(analyzer.dependencies)
            top  == repo_map.statistics.top_dependencies
            head == repo_tour.stats.key_dependencies
            tail == repo_tour.dependencies
        IN  /\ StrictlyAscending(top) /\ StrictlyAscending(head) /\ StrictlyAscending(tail)
            /\ Len(top) <= 10 /\ Len(tail) <= 10 /\ Len(head) <= 5
            /\ PrefixOfLength(top, full, 10)
            /\ PrefixOfLength(tail, full, 10)
            /\ PrefixOfLength(head, full, 5)

\* more identifiers than the longest view holds
C9_Witness ==
    /\ pc = "reported"
    /\ Cardinality(analyzer.dependencies) > 10
    /\ Len(repo_map.statistics.top_dependencies) = 10
    /\ Len(repo_tour.stats.key_dependencies) = 5

-----------------------------------------------------------------------------
(* Determinism of the engine, under SpecEngine                              *)

\* C10: two runs of the engine over the same unmodified workspace, each with
\* its own RepoAnalysis, return the same report and the same tour, whatever
\* order the platform lists directories and iterates sets in.
C10_RunsAgree ==
    \A i, j \in 1..Len(reports) : reports[i] = reports[j]

\* two completed runs over a workspace with siblings to order and a dependency
C10_Witness ==
    /\ Len(reports) >= 2
    /\ ~reports[1].raised /\ ~reports[2].raised
    /\ Len(reports[2].map.repository_structure) >= 2
    /\ reports[2].map.statistics.top_dependencies # << >>
    /\ reports[2].tour.structure # << >>

-----------------------------------------------------------------------------
(* Properties of the Python analyser, under SpecPy                         *)

\* the text of the file that was analysed
PyFileSrc == (CHOOSE f \in ws.entries : TRUE).content.src

\* the analysis is the summary of a parsed file, not an extraction failure
ParsedSummary ==
    /\ pc = "analysed"
    /\ tree_out.analysis.type = "python"
    /\ "error" \notin DOMAIN tree_out.analysis

DeclLines(src, kind) == {i \in 1..Len(src) : src[i].k = kind}

\* line j is a statement of the body of the block opened on line i: the
\* nearest line above j that is indented less than j is i
DirectlyIn(src, j, i) ==
    /\ i < j
    /\ src[i].indent < src[j].indent
    /\ \A m \in (i + 1)..(j - 1) : src[m].indent >= src[j].indent

\* the declaration of line j is an element of the top-level callable list
InFunctions(analysis, src, j) ==
    \E n \in 1..Len(analysis.functions) :
        analysis.functions[n].line = j /\ analysis.functions[n].name = src[j].name

\* the member lists that name the declaration of line j: the lines of their types
MemberOf(analysis, src, j) ==
    {analysis.classes[n].line : n \in {m \in 1..Len(analysis.classes) :
                                         src[j].name \in Range(analysis.classes[m].methods)}}

\* C11: in every parsed Python file, a function declared directly in the body
\* of a class is never in the top-level function list and is named in the
\* method list of that class and of no other, and a module-level function
\* declared on a line before every class of the file is in the top-level list
C11_MethodsAreNotTopLevel ==
    ParsedSummary =>
        LET src == PyFileSrc
            analysis == tree_out.analysis
            types == DeclLines(src, "class")
        IN  /\ \A j \in DeclLines(src, "def") : \A i \in types :
                  DirectlyIn(src, j, i) =>
                      /\ ~InFunctions(analysis, src, j)
                      /\ MemberOf(analysis, src, j) = {i}
            /\ \A j \in DeclLines(src, "def") :
                  (src[j].indent = 0 /\ \A i \in types : j < i) =>
                      InFunctions(analysis, src, j)

\* a file like scenario 1 was analysed: a module-level function, then a class
\* with a method; the function is listed and the method is not
C11_Witness ==
    /\ ParsedSummary
    /\ LET src == PyFileSrc
           analysis == tree_out.analysis
       IN  \E g, c, m \in 1..Len(src) :
              /\ src[g].k = "def" /\ src[g].indent = 0
              /\ src[c].k = "class" /\ g < c
              /\ \A i \in DeclLines(src, "class") : g < i
              /\ src[m].k = "def" /\ DirectlyIn(src, m, c)
              /\ InFunctions(analysis, src, g)
              /\ ~InFunctions(analysis, src, m)
              /\ MemberOf(analysis, src, m) = {c}

-----------------------------------------------------------------------------
(* The dependency set of a run, under SpecEngine                            *)

\* the first segment of a reference: its longest beginning without a separator
FirstSegment(s, sep) ==
    CHOOSE p \in {SubSeq(s, 1, k) : k \in 0..Len(s)} :
        /\ sep \notin Range(p)
        /\ Len(p) = Len(s) \/ s[Len(p) + 1] = sep

\* the root identifiers of the import references of one file in reach: of a
\* Python file that parses its import and from-import lines, of a JavaScript
\* file that decodes its import-from lines, of any other file none
FileRoots(v) ==
    LET f == [path |-> v.path]
        src == v.content.src
    IN  IF ExtractionFails(f, v.content) THEN {}
        ELSE IF IsPy(f)
        THEN {FirstSegment(src[i].mod, ".") :
                i \in {j \in 1..Len(src) : src[j].k \in {"import", "from"}
                                           /\ src[j].mod # << >>}}
        ELSE IF IsJs(f)
        THEN {FirstSegment(src[i].path, "/") :
                i \in {j \in 1..Len(src) : src[j].k = "jsimport"}}
        ELSE {}

react == << "r", "e", "a", "c", "t" >>

\* C12: after a run the dependency set is exactly the set of root identifiers
\* of the import references of the files of the tree whose extraction
\* succeeded: the first dot-separated segment of a Python module name, the
\* first slash-separated segment of a JavaScript import path, each once
C12_DependenciesAreImportRoots ==
    \A o \in RunOutcome :
        o.deps = UNION {FileRoots(v) : v \in InReach(o.md)}

\* a run over a Python file importing os.path and os next to a JavaScript
\* file importing from react/hooks: os is there once, with react
C12_Witness ==
    \E o \in RunOutcome :
        LET reach == InReach(o.md)
        IN  /\ \E v \in reach : v.content = PySrc /\ IsPy([path |-> v.path])
            /\ \E v \in reach : v.content = JsSrc /\ IsJs([path |-> v.path])
            /\ o.deps = {os_, react}

-----------------------------------------------------------------------------
(* The order of the tree and of the tour, under SpecEngine                  *)

\* name a comes before name b: a is a proper beginning of b, or at the first
\* place where they differ a has the character of the lower code point
NameBefore(a, b) ==
    LET pos(c) == CHOOSE i \in 1..Len(CharOrder) : CharOrder[i] = c
        same(k) == \A i \in 1..k : a[i] = b[i]
    IN  \/ Len(a) < Len(b) /\ same(Len(a))
        \/ \E k \in 1..Len(a) :
              /\ k <= Len(b)
              /\ same(k - 1)
              /\ pos(a[k]) < pos(b[k])

\* the nodes of a tree, each as its path from the root of the tree
RECURSIVE TreePaths(_, _)
TreePaths(tree, path) ==
    UNION { {Append(path, tree[i].name)} \cup
            (IF tree[i].info.type = "directory"
             THEN TreePaths(tree[i].info.children, Append(path, tree[i].name))
             ELSE {})
            : i \in 1..Len(tree) }

\* node p is listed before node q depth-first with siblings ascending: p is an
\* ancestor of q, or where the paths part p goes through the earlier name
PathBefore(p, q) ==
    \/ Len(p) < Len(q) /\ SubSeq(q, 1, Len(p)) = p
    \/ \E k \in 1..Len(p) :
          /\ k <= Len(q)
          /\ SubSeq(p, 1, k - 1) = SubSeq(q, 1, k - 1)
          /\ NameBefore(p[k], q[k])

\* every directory of the tree holds its children in ascending order of name
RECURSIVE SiblingsAscending(_)
SiblingsAscending(tree) ==
    /\ \A i \in 1..(Len(tree) - 1) : NameBefore(tree[i].name, tree[i + 1].name)
    /\ \A i \in 1..Len(tree) :
          tree[i].info.type = "directory" => SiblingsAscending(tree[i].info.children)

\* the lines list the nodes of the tree depth-first, siblings ascending: the
\* line of a node comes after as many lines as there are nodes before it, it
\* names the node, and its indentation is the depth of the node
ListsDepthFirst(lines, tree) ==
    LET paths == TreePaths(tree, << >>)
    IN  /\ Len(lines) = Cardinality(paths)
        /\ \A p \in paths :
              LET k == Cardinality({q \in paths : PathBefore(q, p)}) + 1
              IN  /\ lines[k].name = p[Len(p)]
                  /\ lines[k].indent = Len(p) - 1

\* C13: build_file_tree records the non-ignored children of every directory
\* in ascending lexicographic order of name, and the structure section of the
\* tour lists the tree in that order depth-first: the line of a directory is
\* followed at once by the lines of all its descendants, one indentation
\* level deeper per level of depth, before the line of its next sibling
C13_TreeAndTourInNameOrder ==
    /\ \A o \in Outcomes : SiblingsAscending(o.tree)
    /\ \A n \in 1..Len(reports) :
          ~reports[n].raised =>
              ListsDepthFirst(reports[n].tour.structure,
                              reports[n].map.repository_structure)

\* a tour of a tree whose root holds a directory two levels deep, then a
\* file: the lines of the directory and of all that is below it come first,
\* one level deeper each, and the line of the file follows them
C13_Witness ==
    \E n \in 1..Len(reports) :
        /\ ~reports[n].raised
        /\ LET tree == reports[n].map.repository_structure
               lines == reports[n].tour.structure
           IN  /\ Len(tree) >= 2
               /\ tree[Len(tree) - 1].info.type = "directory"
               /\ tree[Len(tree)].info.type = "file"
               /\ \E i \in 1..(Len(lines) - 3) :
                     /\ lines[i].says = "directory" /\ lines[i].indent = 0
                     /\ lines[i + 1].says = "directory" /\ lines[i + 1].indent = 1
                     /\ lines[i + 2].indent = 2
                     /\ lines[i + 3].indent = 0 /\ lines[i + 3].name = n_md

-----------------------------------------------------------------------------
(* The classification rule of the Python analyser, under SpecPy            *)

\* C14 as stated: in a parsed Python file a function declaration is left out
\* of the top-level function list if and only if its line is greater than or
\* equal to the line of at least one class declared anywhere in the file,
\* classes nested in functions or classes and classes met later in the node
\* walk included
C14_LeftOutIffAfterAnyClass ==
    ParsedSummary =>
        LET src == PyFileSrc
        IN  \A j \in DeclLines(src, "def") :
               ~InFunctions(tree_out.analysis, src, j)
                   <=> \E i \in DeclLines(src, "class") : j >= i

\* the breadth-first node walk reaches the declaration of line i before that
\* of line j: it is nested less deep, or as deep and on an earlier line
WalkedBefore(src, i, j) ==
    \/ src[i].indent < src[j].indent
    \/ src[i].indent = src[j].indent /\ i < j

\* C14 amended: in a parsed Python file a function declaration is left out of
\* the top-level function list if and only if its line is greater than or
\* equal to the line of at least one class that the breadth-first node walk
\* reaches before it; a class on an earlier line that is nested deeper than
\* the function does not leave it out
C14_LeftOutIffAfterClassWalkedBefore ==
    ParsedSummary =>
        LET src == PyFileSrc
        IN  \A j \in DeclLines(src, "def") :
               ~InFunctions(tree_out.analysis, src, j)
                   <=> \E i \in DeclLines(src, "class") :
                          j >= i /\ WalkedBefore(src, i, j)

\* a file was analysed in which a function follows a class nested in an
\* earlier function and is listed, and in which another function follows a
\* class that the walk reaches before it and is left out
C14_Witness ==
    /\ ParsedSummary
    /\ LET src == PyFileSrc
           analysis == tree_out.analysis
       IN  /\ \E j \in DeclLines(src, "def") : \E i \in DeclLines(src, "class") :
                  /\ i < j /\ src[i].indent > src[j].indent
                  /\ \A c \in DeclLines(src, "class") : c < j => ~WalkedBefore(src, c, j)
                  /\ InFunctions(analysis, src, j)
           /\ \E j \in DeclLines(src, "def") : \E i \in DeclLines(src, "class") :
                  /\ i < j /\ WalkedBefore(src, i, j)
                  /\ ~InFunctions(analysis, src, j)

-----------------------------------------------------------------------------
(* The statistics of a report against its tree, under SpecReuse            *)

\* C15: after any number of generate_repo_map calls on one RepoAnalysis over
\* an unchanged directory, the statistics of the returned report agree with
\* the returned tree: total_files is the number of file nodes of
\* repository_structure and total_lines the sum of their line counts, a file
\* whose extraction failed or that is unreadable counting one file, no lines
C15_StatisticsAgreeWithTree ==
    \A n \in 1..Len(reports) :
        ~reports[n].raised =>
            LET map == reports[n].map
                files == TreeFileNodes(map.repository_structure)
            IN  /\ map.statistics.total_files = Cardinality(files)
                /\ map.statistics.total_lines = SumLines(files)
====
